---- MODULE Spec2Model ----
(***************************************************************************)
(* A model of the Formula 1 statistics bot (src/main.py): the response     *)
(* cache, the colour resolver, the rank bar and the five command handlers. *)
(***************************************************************************)
EXTENDS Integers, Sequences, FiniteSets, TLC

VARIABLES
    now,      \* the wall clock read by datetime.datetime.now().timestamp(), in seconds
    ticks,    \* how many times the clock has advanced (bounds the exploration)
    cache,    \* the module-level dict `cache`: url -> (response, timestamp)
    last,     \* the calls of get_cached_response that have just returned, or NoCall
    inp,      \* the input a function under study is applied to
    out,      \* what it returned, or NotRun
    tasks,    \* the command invocations the event loop is running, by slot
    figures   \* the pyplot figures created and not closed

vars == <<now, ticks, cache, last, inp, out, tasks, figures>>
funVars == <<inp, out>>
botVars == <<tasks, figures>>

----------------------------------------------------------------------------
(* Bounds of the exploration *)

MaxTicks == 3
MaxBody == 2
MaxShort == 4     \* race payloads of up to this many rows, in every order
MaxRows == 23     \* race payloads of up to this many rows, in rank order
MaxStand == 16    \* rows of the longest standings payload
MaxBotTicks == 1  \* cache lifetimes that pass while the bot runs
MaxDays == 3      \* whole days between the clock and the event instant

----------------------------------------------------------------------------
(* Program constants *)

CACHE_EXPIRY == 3600

----------------------------------------------------------------------------
(* The upstream API as get_cached_response sees it *)

Urls == {"u1", "u2"}

\* What requests.get(url).json() can do.  "ok": a 2xx response with a JSON
\* body.  "httperr": a non-2xx response whose body is JSON (an error
\* document); the code never looks at the status, so .json() returns it.
\* "neterr": requests.get raises.  "badbody": the body is not JSON, so
\* .json() raises.
ErrDoc == "error-document"
Bodies == 1..MaxBody
Responses ==
    [kind : {"ok"}, body : Bodies]
      \cup {[kind |-> "httperr", body |-> ErrDoc],
            [kind |-> "neterr", body |-> ErrDoc],
            [kind |-> "badbody", body |-> ErrDoc]}

\* requests.get(url).json(): the exception it raises, or "none"
FetchRaises(resp) ==
    CASE resp.kind = "neterr"  -> "ConnectionError"
      [] resp.kind = "badbody" -> "JSONDecodeError"
      [] OTHER                 -> "none"

NoValue == "no-value"

Entry(data, ts) == [data |-> data, ts |-> ts]

IsFreshInclusive(c, t, url, force) ==
    /\ url \in DOMAIN c
    /\ ~force
    /\ t - c[url].ts <= CACHE_EXPIRY

\* Whether the lookup is answered from the cache (lines 95-98)
IsFresh(c, t, url, force) ==
    /\ url \in DOMAIN c
    /\ ~force
    /\ t - c[url].ts < CACHE_EXPIRY

StoreAlone(c, url, data, t) ==
    [k \in {url} |-> Entry(data, t)]

\* The cache after a fetched response is stored (line 101)
Store(c, url, data, t) ==
    [k \in DOMAIN c \cup {url} |-> IF k = url THEN Entry(data, t) ELSE c[k]]

\* get_cached_response(url, force_refresh) called at time t, the upstream
\* answering resp if it is asked: the cache afterwards, the value returned,
\* the exception raised and whether the network was used.
GetCachedResponse(c, t, url, force, resp) ==
    IF IsFresh(c, t, url, force)
    THEN [cache |-> c, ret |-> c[url].data, raised |-> "none", fetched |-> FALSE]
    ELSE IF FetchRaises(resp) # "none"
         THEN [cache |-> c, ret |-> NoValue, raised |-> FetchRaises(resp),
               fetched |-> TRUE]
         ELSE [cache |-> Store(c, url, resp.body, t), ret |-> resp.body,
               raised |-> "none", fetched |-> TRUE]

----------------------------------------------------------------------------
(* JSON payloads and the exceptions that reading them raises *)

\* A payload is described by what the handlers' subscript chains do on it.
\* path: the chain to the list the handler wants (response["MRData"][...][0])
\*   "ok"       it yields the object
\*   "missing"  a key of the chain is absent               -> KeyError
\*   "empty"    the list indexed with [0] is empty         -> IndexError
\*   "badtype"  a value of the chain is null or a scalar   -> TypeError
\* rows: the rows of the list, each with a position and a defect
\*   "none"     the row has every field, well typed
\*   "nofield"  a field the handler reads is absent        -> KeyError
\*   "badtype"  a numeric field is not a number            -> ValueError
PathRaises(path) ==
    CASE path = "missing" -> "KeyError"
      [] path = "empty"   -> "IndexError"
      [] path = "badtype" -> "TypeError"
      [] OTHER            -> "none"

Row(pos, defect) == [position |-> pos, defect |-> defect]

Body(path, rows) == [path |-> path, rows |-> rows]

\* A message handed to followup.send / response.send_message.  Titles,
\* colours and footers are left out; rows and podium are what it lists.
Msg(kind, rows, podium) ==
    [kind |-> kind, rows |-> rows, podium |-> podium, champion |-> 0]

Failure == Msg("failure", <<>>, <<>>)

\* What a handler does after its fetch: the messages it sends, in order, and
\* the exception that leaves it uncaught ("none" when it returns normally)
Outcome(sends, raised) == [sends |-> sends, raised |-> raised]

\* except (IndexError, KeyError): the handler's failure message; any other
\* exception leaves the handler
CatchIndexKey(exc) ==
    IF exc \in {"IndexError", "KeyError"}
    THEN Outcome(<<Failure>>, "none")
    ELSE Outcome(<<>>, exc)

\* The first element of a sequence of exception names that is not "none"
RECURSIVE FirstRaised(_)
FirstRaised(excs) ==
    IF excs = <<>> THEN "none"
    ELSE IF Head(excs) # "none" THEN Head(excs)
    ELSE FirstRaised(Tail(excs))

Min(a, b) == IF a < b THEN a ELSE b

\* Python's seq[:n]
Prefix(seq, n) == SubSeq(seq, 1, Min(n, Len(seq)))

----------------------------------------------------------------------------
(* create_progress_bar and f1_results *)

BAR_WIDTH == 20
PAGE_SIZE == 7

\* create_progress_bar(position, total_drivers): the exception raised, or
\* the number of filled glyphs.  (total - position) / (total - 1) divides by
\* zero when total_drivers is 1; int() truncates width * progress.
CreateProgressBar(position, total) ==
    IF total - 1 = 0
    THEN [raised |-> "ZeroDivisionError", filled |-> 0]
    ELSE LET num == total - position
             den == total - 1
             \* max(0, num / den) * width, truncated
             filled == IF (num >= 0) = (den > 0)
                       THEN (BAR_WIDTH * (IF num >= 0 THEN num ELSE -num))
                              \div (IF den > 0 THEN den ELSE -den)
                       ELSE 0
         IN  [raised |-> "none", filled |-> filled]

\* ["gold", "silver", "bronze"][position_int - 1] with Python's indexing:
\* -1, -2, -3 count from the end, anything else out of range is an IndexError
Medals == <<"gold", "silver", "bronze">>
MedalIndex(position) ==
    LET i == position - 1 IN
    IF i \in 0..2 THEN i + 1
    ELSE IF i \in (-3)..(-1) THEN i + 4
    ELSE 0

\* The body of the loop over race_data["Results"] (lines 163-199) on one row:
\* the first exception it raises
ResultRowRaises(row, total) ==
    IF row.defect = "nofield" THEN "KeyError"
    ELSE IF row.defect = "badtype" THEN "ValueError"
    ELSE IF row.position <= 3 /\ MedalIndex(row.position) = 0 THEN "IndexError"
    ELSE CreateProgressBar(row.position, total).raised

\* The podium text (lines 190-192): one line per row with position <= 3, in
\* the order the payload lists the rows
RECURSIVE PodiumFrom(_, _)
PodiumFrom(rows, i) ==
    IF i > Len(rows) THEN <<>>
    ELSE IF rows[i].position <= 3
         THEN <<[medal |-> Medals[MedalIndex(rows[i].position)], id |-> i,
                 position |-> rows[i].position]>> \o PodiumFrom(rows, i + 1)
         ELSE PodiumFrom(rows, i + 1)

\* The result entries (line 199) in payload order: the position, the row it
\* came from and its bar
ResultEntries(rows) ==
    [i \in 1..Len(rows) |->
        [position |-> rows[i].position, id |-> i,
         filled |-> CreateProgressBar(rows[i].position, Len(rows)).filled]]

\* results.sort(key=lambda x: x[0]) (line 216): a stable sort by position
RECURSIVE InsertByPosition(_, _)
InsertByPosition(e, sorted) ==
    IF sorted = <<>> THEN <<e>>
    ELSE IF e.position < Head(sorted).position THEN <<e>> \o sorted
    ELSE <<Head(sorted)>> \o InsertByPosition(e, Tail(sorted))

RECURSIVE SortByPosition(_)
SortByPosition(entries) ==
    IF entries = <<>> THEN <<>>
    ELSE InsertByPosition(entries[Len(entries)],
                          SortByPosition(SubSeq(entries, 1, Len(entries) - 1)))

\* [results[i:i+7] for i in range(0, len(results), 7)] (line 219)
RECURSIVE Chunks(_)
Chunks(entries) ==
    IF entries = <<>> THEN <<>>
    ELSE <<Prefix(entries, PAGE_SIZE)>>
           \o Chunks(SubSeq(entries, Min(PAGE_SIZE, Len(entries)) + 1, Len(entries)))

\* f1_results after its fetch (lines 136-238) on the response body
F1ResultsOutcome(body) ==
    IF PathRaises(body.path) # "none" THEN CatchIndexKey(PathRaises(body.path))
    ELSE LET rows == body.rows
             exc == FirstRaised([i \in 1..Len(rows) |->
                                    ResultRowRaises(rows[i], Len(rows))])
         IN  IF exc # "none" THEN CatchIndexKey(exc)
             ELSE LET pages == Chunks(SortByPosition(ResultEntries(rows))) IN
                  Outcome(<<Msg("summary", <<>>, PodiumFrom(rows, 1))>>
                            \o [j \in 1..Len(pages) |-> Msg("page", pages[j], <<>>)],
                          "none")

----------------------------------------------------------------------------
(* get_team_color: names are sequences of characters *)

\* The dict TEAM_COLORS in its insertion order, which is the order
\* TEAM_COLORS.items() iterates in; colours are the 24-bit values in decimal
TEAM_COLORS ==
    <<
       [name |-> <<"R", "e", "d", " ", "B", "u", "l", "l">>, color |-> 393455],  \* Red Bull 0x0600EF
       [name |-> <<"F", "e", "r", "r", "a", "r", "i">>, color |-> 14417920],  \* Ferrari 0xDC0000
       [name |-> <<"M", "e", "r", "c", "e", "d", "e", "s">>, color |-> 53950],  \* Mercedes 0x00D2BE
       [name |-> <<"M", "c", "L", "a", "r", "e", "n">>, color |-> 16746240],  \* McLaren 0xFF8700
       [name |-> <<"A", "s", "t", "o", "n", " ", "M", "a", "r", "t", "i", "n">>, color |-> 28514],  \* Aston Martin 0x006F62
       [name |-> <<"A", "l", "p", "i", "n", "e">>, color |-> 37119],  \* Alpine 0x0090FF
       [name |-> <<"W", "i", "l", "l", "i", "a", "m", "s">>, color |-> 23295],  \* Williams 0x005AFF
       [name |-> <<"A", "l", "p", "h", "a", "T", "a", "u", "r", "i">>, color |-> 2835810],  \* AlphaTauri 0x2B4562
       [name |-> <<"A", "l", "f", "a", " ", "R", "o", "m", "e", "o">>, color |-> 9437184],  \* Alfa Romeo 0x900000
       [name |-> <<"H", "a", "a", "s", " ", "F", "1", " ", "T", "e", "a", "m">>, color |-> 16777215],  \* Haas F1 Team 0xFFFFFF
       [name |-> <<"R", "a", "c", "i", "n", "g", " ", "P", "o", "i", "n", "t">>, color |-> 16094920],  \* Racing Point 0xF596C8
       [name |-> <<"R", "e", "n", "a", "u", "l", "t">>, color |-> 16774400],  \* Renault 0xFFF500
       [name |-> <<"T", "o", "r", "o", " ", "R", "o", "s", "s", "o">>, color |-> 4627455],  \* Toro Rosso 0x469BFF
       [name |-> <<"S", "a", "u", "b", "e", "r">>, color |-> 10158080],  \* Sauber 0x9B0000
       [name |-> <<"F", "o", "r", "c", "e", " ", "I", "n", "d", "i", "a">>, color |-> 16736015],  \* Force India 0xFF5F0F
       [name |-> <<"M", "a", "n", "o", "r", " ", "M", "a", "r", "u", "s", "s", "i", "a">>, color |-> 7208960],  \* Manor Marussia 0x6E0000
       [name |-> <<"L", "o", "t", "u", "s", " ", "F", "1">>, color |-> 0],  \* Lotus F1 0x000000
       [name |-> <<"M", "a", "r", "u", "s", "s", "i", "a">>, color |-> 7208960],  \* Marussia 0x6E0000
       [name |-> <<"C", "a", "t", "e", "r", "h", "a", "m">>, color |-> 27648],  \* Caterham 0x006C00
       [name |-> <<"H", "R", "T">>, color |-> 6842472],  \* HRT 0x686868
       [name |-> <<"V", "i", "r", "g", "i", "n">>, color |-> 3289650],  \* Virgin 0x323232
       [name |-> <<"B", "r", "a", "w", "n">>, color |-> 15790320],  \* Brawn 0xF0F0F0
       [name |-> <<"H", "o", "n", "d", "a">>, color |-> 26163],  \* Honda 0x006633
       [name |-> <<"S", "u", "p", "e", "r", " ", "A", "g", "u", "r", "i">>, color |-> 14813952],  \* Super Aguri 0xE20B00
       [name |-> <<"B", "M", "W", " ", "S", "a", "u", "b", "e", "r">>, color |-> 7132095],  \* BMW Sauber 0x6CD3BF
       [name |-> <<"S", "p", "y", "k", "e", "r">>, color |-> 15876115],  \* Spyker 0xF24013
       [name |-> <<"M", "i", "d", "l", "a", "n", "d">>, color |-> 10354688],  \* Midland 0x9E0000
       [name |-> <<"J", "o", "r", "d", "a", "n">>, color |-> 16370502],  \* Jordan 0xF9CB46
       [name |-> <<"J", "a", "g", "u", "a", "r">>, color |-> 3509365],  \* Jaguar 0x358C75
       [name |-> <<"B", "A", "R">>, color |-> 16625664],  \* BAR 0xFDB000
       [name |-> <<"A", "r", "r", "o", "w", "s">>, color |-> 16744448],  \* Arrows 0xFF8000
       [name |-> <<"M", "i", "n", "a", "r", "d", "i">>, color |-> 0],  \* Minardi 0x000000
       [name |-> <<"P", "r", "o", "s", "t">>, color |-> 95],  \* Prost 0x00005F
       [name |-> <<"B", "e", "n", "e", "t", "t", "o", "n">>, color |-> 33823],  \* Benetton 0x00841F
       [name |-> <<"S", "t", "e", "w", "a", "r", "t">>, color |-> 16777215],  \* Stewart 0xFFFFFF
       [name |-> <<"T", "y", "r", "r", "e", "l", "l">>, color |-> 3815131],  \* Tyrrell 0x3A36DB
       [name |-> <<"F", "o", "o", "t", "w", "o", "r", "k">>, color |-> 16744448],  \* Footwork 0xFF8000
       [name |-> <<"L", "i", "g", "i", "e", "r">>, color |-> 125],  \* Ligier 0x00007D
       [name |-> <<"S", "i", "m", "t", "e", "k">>, color |-> 16777215],  \* Simtek 0xFFFFFF
       [name |-> <<"L", "a", "r", "r", "o", "u", "s", "s", "e">>, color |-> 16777215],  \* Larrousse 0xFFFFFF
       [name |-> <<"B", "r", "a", "b", "h", "a", "m">>, color |-> 4749456],  \* Brabham 0x487890
       [name |-> <<"F", "o", "n", "d", "m", "e", "t", "a", "l">>, color |-> 16777215],  \* Fondmetal 0xFFFFFF
       [name |-> <<"M", "a", "r", "c", "h">>, color |-> 9240672],  \* March 0x8D0060
       [name |-> <<"F", "o", "r", "t", "i">>, color |-> 16744192],  \* Forti 0xFF7F00
       [name |-> <<"P", "a", "c", "i", "f", "i", "c">>, color |-> 26163],  \* Pacific 0x006633
       [name |-> <<"R", "B", " ", "F", "1", " ", "T", "e", "a", "m">>, color |-> 393455],  \* RB F1 Team 0x0600EF
       [name |-> <<"R", "a", "c", "i", "n", "g", " ", "B", "u", "l", "l", "s">>, color |-> 393455],  \* Racing Bulls 0x0600EF
       [name |-> <<"H", "a", "a", "s">>, color |-> 16777215],  \* Haas 0xFFFFFF
       [name |-> <<"A", "l", "p", "h", "a", "T", "a", "u", "r", "i", " ", "R", "B">>, color |-> 393455]   \* AlphaTauri RB 0x0600EF
    >>

UpperToLower ==
    [c \in {"A", "B", "C", "D", "E", "F", "G", "H", "I", "J", "K", "L", "M", "N", "O", "P", "Q", "R", "S", "T", "U", "V", "W", "X", "Y", "Z"} |->
        CASE c = "A" -> "a"
          [] c = "B" -> "b"
          [] c = "C" -> "c"
          [] c = "D" -> "d"
          [] c = "E" -> "e"
          [] c = "F" -> "f"
          [] c = "G" -> "g"
          [] c = "H" -> "h"
          [] c = "I" -> "i"
          [] c = "J" -> "j"
          [] c = "K" -> "k"
          [] c = "L" -> "l"
          [] c = "M" -> "m"
          [] c = "N" -> "n"
          [] c = "O" -> "o"
          [] c = "P" -> "p"
          [] c = "Q" -> "q"
          [] c = "R" -> "r"
          [] c = "S" -> "s"
          [] c = "T" -> "t"
          [] c = "U" -> "u"
          [] c = "V" -> "v"
          [] c = "W" -> "w"
          [] c = "X" -> "x"
          [] c = "Y" -> "y"
          [] c = "Z" -> "z"]

DEFAULT_COLOR == 16734003  \* 0xFF5733

\* str.lower() on the characters the table and the inputs use
LowerChar(c) == IF c \in DOMAIN UpperToLower THEN UpperToLower[c] ELSE c
Lower(str) == [i \in 1..Len(str) |-> LowerChar(str[i])]

\* Python's `a in b` on strings
IsSubstr(a, b) ==
    \E i \in 0..(Len(b) - Len(a)) : SubSeq(b, i + 1, i + Len(a)) = a

TableIndices == 1..Len(TEAM_COLORS)

\* team.lower() in team_name.lower() or team_name.lower() in team.lower()
PartialMatch(i, name) ==
    \/ IsSubstr(Lower(TEAM_COLORS[i].name), Lower(name))
    \/ IsSubstr(Lower(name), Lower(TEAM_COLORS[i].name))

PartialMatchOneWay(i, name) ==
    IsSubstr(Lower(name), Lower(TEAM_COLORS[i].name))

\* The first i in S, in ascending order, with P(i); 0 when there is none
FirstIndex(S, P(_)) ==
    IF \E i \in S : P(i) THEN CHOOSE i \in S : P(i) /\ \A j \in S : P(j) => i <= j
    ELSE 0

GetTeamColorOneWay(name) ==
    IF name = <<>> THEN DEFAULT_COLOR
    ELSE LET exact == FirstIndex(TableIndices, LAMBDA i : TEAM_COLORS[i].name = name)
             part == FirstIndex(TableIndices, LAMBDA i : PartialMatchOneWay(i, name))
         IN  IF exact # 0 THEN TEAM_COLORS[exact].color
             ELSE IF part # 0 THEN TEAM_COLORS[part].color
             ELSE DEFAULT_COLOR

\* get_team_color(team_name) (lines 104-118)
GetTeamColor(name) ==
    IF name = <<>> THEN DEFAULT_COLOR
    ELSE LET exact == FirstIndex(TableIndices, LAMBDA i : TEAM_COLORS[i].name = name)
             part == FirstIndex(TableIndices, LAMBDA i : PartialMatch(i, name))
         IN  IF exact # 0 THEN TEAM_COLORS[exact].color
             ELSE IF part # 0 THEN TEAM_COLORS[part].color
             ELSE DEFAULT_COLOR

----------------------------------------------------------------------------
(* f1_standings_drivers, f1_standings_teams, f1_next and f1_driver *)

CHART_ROWS == 15        \* standings[:15], the drivers charted
TEAM_CHART_ROWS == 10   \* standings[:10], the constructors charted
TEXT_ROWS == 10         \* standings[:10] and results[:10], the text fallback
TOP_ROWS == 3           \* standings[:3], the medal fields and the enrichment

Positions(rows) == [i \in 1..Len(rows) |-> rows[i].position]

\* Reading the rows for the chart: field access and float(points)
ChartRowsRaise(rows) ==
    FirstRaised([i \in 1..Len(rows) |->
        CASE rows[i].defect = "nofield" -> "KeyError"
          [] rows[i].defect = "badtype" -> "ValueError"
          [] OTHER                      -> "none"])

\* Reading the rows for the text fallback: field access only
TextRowsRaise(rows) ==
    FirstRaised([i \in 1..Len(rows) |->
        IF rows[i].defect = "nofield" THEN "KeyError" ELSE "none"])

\* Where pyplot fails while the chart is built: nowhere, in plt.figure, in
\* the drawing calls, or in plt.savefig
ChartFaults == {"none", "figure", "draw", "save"}

\* Building the chart (lines 252-321, 413-456): the exception raised, and
\* whether a figure was created and plt.close() not reached
Chart(rows, fault) ==
    IF fault = "figure" THEN [raised |-> "RuntimeError", leaked |-> FALSE]
    ELSE IF ChartRowsRaise(rows) # "none"
         THEN [raised |-> ChartRowsRaise(rows), leaked |-> TRUE]
    ELSE IF fault # "none" THEN [raised |-> "RuntimeError", leaked |-> TRUE]
    ELSE [raised |-> "none", leaked |-> FALSE]

\* The medal fields of the chart message (lines 335-347, 470-481)
TopFields(rows) ==
    [i \in 1..Min(TOP_ROWS, Len(rows)) |->
        [medal |-> Medals[i], id |-> i, position |-> rows[i].position]]

TextRowsWide(rows) == Prefix(rows, CHART_ROWS)

\* The rows of the text fallback (lines 378, 515)
TextRows(rows) == Prefix(rows, TEXT_ROWS)

\* The championship lookups (lines 350-367) from driver i on, on cache c at
\* time t, resps[i] being what the upstream answers for driver i: the cache
\* afterwards, the driver reported (0 for none) and the lookups made.  Any
\* exception leaves the loop and is swallowed.
ChampUrl(i) == <<"champ", i>>

RECURSIVE Enrich(_, _, _, _, _)
Enrich(c, t, i, n, resps) ==
    IF i > n THEN [cache |-> c, champion |-> 0, gets |-> n]
    ELSE LET r == GetCachedResponse(c, t, ChampUrl(i), FALSE, resps[i]) IN
         IF r.raised # "none" \/ PathRaises(r.ret.path) # "none"
         THEN [cache |-> r.cache, champion |-> 0, gets |-> i]
         ELSE IF r.ret.total > 0
              THEN [cache |-> r.cache, champion |-> i, gets |-> i]
              ELSE Enrich(r.cache, t, i + 1, n, resps)

\* What a standings handler did: the messages, the uncaught exception,
\* whether it left a figure open, the cache after it and the championship
\* lookups it made
Handled(sends, raised, leaked, c, gets) ==
    [sends |-> sends, raised |-> raised, leaked |-> leaked, cache |-> c,
     gets |-> gets]

\* The except Exception branch of f1_standings_drivers (lines 373-396);
\* bound says whether `standings` was assigned before the exception
DriversFallback(body, bound) ==
    IF ~bound THEN Outcome(<<>>, "UnboundLocalError")
    ELSE IF TextRowsRaise(TextRows(body.rows)) # "none"
         THEN CatchIndexKey(TextRowsRaise(TextRows(body.rows)))
    ELSE Outcome(<<Msg("text", Positions(TextRows(body.rows)), <<>>)>>, "none")

\* f1_standings_drivers after its fetch (lines 248-396)
F1StandingsDrivers(body, fault, c, t, resps) ==
    IF PathRaises(body.path) # "none"
    THEN LET o == DriversFallback(body, FALSE) IN
         Handled(o.sends, o.raised, FALSE, c, 0)
    ELSE LET rows == Prefix(body.rows, CHART_ROWS)
             ch == Chart(rows, fault)
         IN  IF ch.raised # "none"
             THEN LET o == DriversFallback(body, TRUE) IN
                  Handled(o.sends, o.raised, ch.leaked, c, 0)
             ELSE LET e == Enrich(c, t, 1, Min(TOP_ROWS, Len(body.rows)), resps) IN
                  Handled(<<[Msg("chart", Positions(rows), TopFields(body.rows))
                               EXCEPT !.champion = e.champion]>>,
                          "none", FALSE, e.cache, e.gets)

\* f1_standings_teams after its fetch (lines 407-522)
F1StandingsTeams(body, fault, c) ==
    IF PathRaises(body.path) # "none"
    THEN LET o == CatchIndexKey(PathRaises(body.path)) IN
         Handled(o.sends, o.raised, FALSE, c, 0)
    ELSE LET rows == Prefix(body.rows, TEAM_CHART_ROWS)
             ch == Chart(rows, fault)
         IN  IF ch.raised = "none"
             THEN Handled(<<Msg("chart", Positions(rows), TopFields(body.rows))>>,
                          "none", FALSE, c, 0)
             ELSE \* the fallback reads every row, then shows results[:10]
                  IF TextRowsRaise(body.rows) # "none"
                  THEN LET o == CatchIndexKey(TextRowsRaise(body.rows)) IN
                       Handled(o.sends, o.raised, ch.leaked, c, 0)
                  ELSE Handled(<<Msg("text", Positions(TextRows(body.rows)), <<>>)>>,
                               "none", ch.leaked, c, 0)

\* f1_next (lines 532-621) and f1_driver (lines 629-645) after their fetch:
\* the payload's one object is the row read
SingleObject(body, kind) ==
    IF PathRaises(body.path) # "none" THEN CatchIndexKey(PathRaises(body.path))
    ELSE IF ChartRowsRaise(Prefix(body.rows, 1)) # "none"
         THEN CatchIndexKey(ChartRowsRaise(Prefix(body.rows, 1)))
    ELSE Outcome(<<Msg(kind, Positions(Prefix(body.rows, 1)), <<>>)>>, "none")

F1NextOutcome(body) == SingleObject(body, "next")

F1DriverOutcome(body) == SingleObject(body, "driver")

----------------------------------------------------------------------------
(* The cache on its own: any sequence of calls, the clock advancing between *)

NoCall == [url |-> "none"]
NoResp == [kind |-> "unused", body |-> ErrDoc]

EmptyCache == [k \in {} |-> NoValue]

Deltas == {1, CACHE_EXPIRY - 1, CACHE_EXPIRY}

NotRun == [status |-> "not-run"]

\* The command invocations the event loop runs, one after the other or
\* interleaved at their awaits
Slots == {"t1", "t2"}

NoBody == [path |-> "none", rows |-> <<>>]
\* No championship lookup is answered
NoChamps == [i \in 1..TOP_ROWS |-> NoResp]

\* An invocation: the command, where it stands, what it has done so far and
\* has still to send, the exception that ended it, the payload it got, the
\* pyplot call that failed and the clock reading its fetch was started at
IdleTask == [cmd |-> "none", pc |-> "idle", log |-> <<>>, pending |-> <<>>,
             raised |-> "none", body |-> NoBody, fault |-> "none", at |-> 0]

NoTasks ==
    /\ tasks = [t \in Slots |-> IdleTask]
    /\ figures = 0

InitCache ==
    /\ now = 0
    /\ ticks = 0
    /\ cache = EmptyCache
    /\ last = NoCall
    /\ inp = NoValue
    /\ out = NotRun
    /\ NoTasks

Tick ==
    /\ ticks < MaxTicks
    /\ \E d \in Deltas : now' = now + d
    /\ ticks' = ticks + 1
    /\ last' = NoCall
    /\ UNCHANGED <<cache, funVars, botVars>>

Get ==
    \E url \in Urls, force \in BOOLEAN, resp \in Responses :
        LET r == GetCachedResponse(cache, now, url, force, resp) IN
        /\ cache' = r.cache
        /\ last' = [url |-> url, force |-> force,
                    hadEntry |-> url \in DOMAIN cache,
                    resp |-> IF r.fetched THEN resp ELSE NoResp,
                    ret |-> r.ret, raised |-> r.raised, fetched |-> r.fetched]
        /\ UNCHANGED <<now, ticks, funVars, botVars>>

NextCache == Tick \/ Get

SpecCache == InitCache /\ [][NextCache]_vars

----------------------------------------------------------------------------
(* f1_results on its own: one race payload, then the handler's work on it *)

\* Sequences of length n over S
SeqsOfLen(S, n) == [1..n -> S]

Ascending(n) == [i \in 1..n |-> i]
Descending(n) == [i \in 1..n |-> n + 1 - i]

\* Position lists: every list of up to MaxShort positions from 0..MaxShort
\* (every order, repeated and missing ranks, a rank of 0), and the grids of
\* up to MaxRows rows in rank order and in reverse rank order
PositionLists ==
    UNION {SeqsOfLen(0..MaxShort, n) : n \in 0..MaxShort}
      \cup {Ascending(n) : n \in 1..MaxRows}
      \cup {Descending(n) : n \in 1..MaxRows}

WellFormedRows(ps) == [i \in 1..Len(ps) |-> Row(ps[i], "none")]

ResultBodies ==
    {Body("ok", WellFormedRows(ps)) : ps \in PositionLists}
      \cup {Body(path, <<>>) : path \in {"missing", "empty", "badtype"}}
      \cup {Body("ok", <<Row(1, "none"), Row(2, d), Row(3, "none")>>) :
               d \in {"nofield", "badtype"}}

InitResults ==
    /\ now = 0
    /\ ticks = 0
    /\ cache = EmptyCache
    /\ last = NoCall
    /\ inp \in ResultBodies
    /\ out = NotRun
    /\ NoTasks

RunResults ==
    /\ out = NotRun
    /\ out' = F1ResultsOutcome(inp)
    /\ UNCHANGED <<now, ticks, cache, last, inp, botVars>>

NextResults == RunResults

SpecResults == InitResults /\ [][NextResults]_vars

----------------------------------------------------------------------------
(* get_team_color on its own: one name, then its colour *)

SubstringsOf(str) ==
    {SubSeq(str, i, j) : i \in 1..Len(str), j \in 0..Len(str)}

\* Names the resolver is tried on: every substring of every table name, as
\* written and in lower case; every table name with a word before or after
\* it; and names that share nothing with the table
ColorInputs ==
    UNION {SubstringsOf(TEAM_COLORS[i].name) \cup SubstringsOf(Lower(TEAM_COLORS[i].name))
              : i \in TableIndices}
      \cup {TEAM_COLORS[i].name \o <<" ", "F", "1">> : i \in TableIndices}
      \cup {<<"F", "1", " ">> \o Lower(TEAM_COLORS[i].name) : i \in TableIndices}
      \cup {<<"Z", "z">>, <<"1", "1">>, <<"x">>}

InitColor ==
    /\ now = 0
    /\ ticks = 0
    /\ cache = EmptyCache
    /\ last = NoCall
    /\ inp \in ColorInputs
    /\ out = NotRun
    /\ NoTasks

RunColor ==
    /\ out = NotRun
    /\ out' = [color |-> GetTeamColor(inp)]
    /\ UNCHANGED <<now, ticks, cache, last, inp, botVars>>

NextColor == RunColor

SpecColor == InitColor /\ [][NextColor]_vars

----------------------------------------------------------------------------
(* The bot: commands dispatched by the event loop, each handler running *)
(* from one await to the next *)

Commands == {"results", "drivers", "teams", "next", "driver"}

\* One url per command (one season, one round)
UrlOf(cmd) == <<cmd, 0>>

StandRows(n) == [i \in 1..n |-> Row(i, "none")]
WithDefect(rows, i, d) == [rows EXCEPT ![i].defect = d]

PathDefects == {"empty", "badtype"}
RowDefects == {"nofield", "badtype"}

\* The bodies the upstream can answer a command with
BodiesOf(cmd) ==
    {Body(p, <<>>) : p \in PathDefects} \cup
    CASE cmd = "results" ->
           {Body("ok", WellFormedRows(ps)) :
               ps \in {<<1>>, <<2, 1, 3>>}}
             \cup {Body("ok", WithDefect(StandRows(2), 2, d)) : d \in RowDefects}
      [] cmd \in {"drivers", "teams"} ->
           {Body("ok", StandRows(n)) : n \in {2, MaxStand}}
             \cup {Body("ok", WithDefect(StandRows(MaxStand), i, d)) :
                      i \in {1, TEXT_ROWS + 1}, d \in RowDefects}
      [] OTHER ->
           {Body("ok", <<Row(1, d)>>) : d \in RowDefects \cup {"none"}}

\* A non-2xx answer with a JSON body: an error document without the path
ErrBody == Body("missing", <<>>)

ResponsesOf(cmd) ==
    [kind : {"ok"}, body : BodiesOf(cmd)]
      \cup {[kind |-> "httperr", body |-> ErrBody],
            [kind |-> "neterr", body |-> ErrBody],
            [kind |-> "badbody", body |-> ErrBody]}

ChampBody(total) == [path |-> "ok", rows |-> <<>>, total |-> total]

ChampResponses ==
    {[kind |-> "ok", body |-> ChampBody(n)] : n \in 0..1}
      \cup {[kind |-> "neterr", body |-> ErrBody]}

\* What the upstream would answer is drawn where the handler comes to ask:
\* the answer is not consulted when the cache is fresh, the chart is built by
\* the standings handlers only, the championships are looked up by
\* f1_standings_drivers only
Unasked == [kind |-> "neterr", body |-> ErrBody]

FaultsIn(cmd) ==
    IF cmd \in {"drivers", "teams"} THEN ChartFaults ELSE {"none"}

\* f1_standings_drivers comes to its championship lookups
ReachesEnrich(cmd, body, fault) ==
    /\ cmd = "drivers"
    /\ PathRaises(body.path) = "none"
    /\ Chart(Prefix(body.rows, CHART_ROWS), fault).raised = "none"

ChampAnswersTo(cmd, body, fault) ==
    IF ReachesEnrich(cmd, body, fault)
    THEN {f \in [1..TOP_ROWS -> ChampResponses \cup {NoResp}] :
             \A i \in 1..TOP_ROWS : f[i] = NoResp <=> i > Len(body.rows)}
    ELSE {NoChamps}

\* Invocations are numbered as they arrive
ArrivesBefore(t) == IF t = "t2" THEN {"t1"} ELSE {}

NoMsg == Msg("none", <<>>, <<>>)
Ev(ev, msg) == [ev |-> ev, msg |-> msg]
Ack == Ev("ack", NoMsg)
CacheGet == Ev("cache_get", NoMsg)
DirectGet == Ev("direct_get", NoMsg)

InitBot ==
    /\ now = 0
    /\ ticks = 0
    /\ cache = EmptyCache
    /\ last = NoCall
    /\ inp = NoValue
    /\ out = NotRun
    /\ NoTasks

\* No invocation is inside requests.get.  The call is synchronous and is made
\* from get_cached_response (line 100), itself called without an await: while
\* it waits for the upstream, the one thread of the event loop runs nothing
\* else, neither another handler nor the arrival of a command.
LoopFree == \A u \in Slots : tasks[u].pc # "fetching"

\* The handler has run to an await or to its end: it goes on to send what
\* it has to send, or is over
Proceed(task, sends, raised) ==
    [task EXCEPT !.pending = sends,
                 !.raised = raised,
                 !.pc = IF sends # <<>> THEN "sending"
                        ELSE IF raised # "none" THEN "crashed" ELSE "done"]

\* A command arrives.  The four deferring handlers run to
\* `await interaction.response.defer()`; f1_driver (lines 625-645) fetches
\* with requests.get at once and runs to `await response.send_message`.
Dispatch(t) ==
    /\ tasks[t].pc = "idle"
    /\ LoopFree
    /\ \A e \in ArrivesBefore(t) : tasks[e].pc # "idle"
    /\ \E cmd \in Commands :
          IF cmd = "driver"
          THEN \E resp \in ResponsesOf(cmd) :
                 LET fresh == [IdleTask EXCEPT !.cmd = cmd, !.log = <<DirectGet>>] IN
                 tasks' = [tasks EXCEPT ![t] =
                    IF FetchRaises(resp) # "none"
                    THEN Proceed(fresh, <<>>, FetchRaises(resp))
                    ELSE LET o == F1DriverOutcome(resp.body) IN
                         Proceed([fresh EXCEPT !.body = resp.body], o.sends, o.raised)]
          ELSE tasks' = [tasks EXCEPT ![t] =
                    [IdleTask EXCEPT !.cmd = cmd, !.log = <<Ack>>, !.pc = "deferred"]]
    /\ last' = NoCall
    /\ UNCHANGED <<now, ticks, cache, funVars, figures>>

\* The championship lookups that have just been made, by what the upstream
\* answers for each of the top drivers
ChampCalls(resps) == [url |-> "championships", answers |-> resps]

\* All the work of a handler from its call of get_cached_response, made at
\* clock reading `at` and answered with resp, up to its first send; there is
\* no await in between.  The championship lookups of f1_standings_drivers
\* are further calls of requests.get inside this step; `last` keeps what the
\* upstream answers to them until the next step is taken.
Work(t, got, at, resp) ==
    LET cmd == got.cmd IN
    \E fault \in FaultsIn(cmd) :
       LET r == GetCachedResponse(cache, at, UrlOf(cmd), cmd = "next", resp) IN
       IF r.raised # "none"
       THEN /\ tasks' = [tasks EXCEPT ![t] = Proceed(got, <<>>, r.raised)]
            /\ last' = NoCall
            /\ UNCHANGED <<cache, figures>>
       ELSE \E resps \in ChampAnswersTo(cmd, r.ret, fault) :
            LET h == CASE cmd = "drivers" ->
                            F1StandingsDrivers(r.ret, fault, r.cache, now, resps)
                       [] cmd = "teams" ->
                            F1StandingsTeams(r.ret, fault, r.cache)
                       [] cmd = "results" ->
                            LET o == F1ResultsOutcome(r.ret) IN
                            Handled(o.sends, o.raised, FALSE, r.cache, 0)
                       [] OTHER ->
                            LET o == F1NextOutcome(r.ret) IN
                            Handled(o.sends, o.raised, FALSE, r.cache, 0)
                charted == cmd \in {"drivers", "teams"}
                             /\ PathRaises(r.ret.path) = "none"
            IN  /\ tasks' = [tasks EXCEPT ![t] =
                     Proceed([got EXCEPT
                                !.body = r.ret,
                                !.fault = IF charted THEN fault ELSE "none",
                                !.log = @ \o [i \in 1..h.gets |-> CacheGet]],
                             h.sends, h.raised)]
                /\ cache' = h.cache
                /\ figures' = figures + (IF h.leaked THEN 1 ELSE 0)
                /\ last' = IF resps = NoChamps THEN NoCall ELSE ChampCalls(resps)

\* The handler resumes after defer() and calls get_cached_response, which
\* reads the clock (line 93).  On a fresh entry it goes on with the stored
\* payload; otherwise it enters requests.get and waits there.
Resume(t) ==
    /\ tasks[t].pc = "deferred"
    /\ LoopFree
    /\ LET cmd == tasks[t].cmd
           got == [tasks[t] EXCEPT !.log = Append(@, CacheGet)]
       IN  IF IsFresh(cache, now, UrlOf(cmd), cmd = "next")
           THEN Work(t, got, now, Unasked)
           ELSE /\ tasks' = [tasks EXCEPT ![t] =
                              [got EXCEPT !.pc = "fetching", !.at = now]]
                /\ last' = NoCall
                /\ UNCHANGED <<cache, figures>>
    /\ UNCHANGED <<now, ticks, funVars>>

\* requests.get returns or raises: the handler stores the payload under the
\* clock reading taken before the fetch and goes on to its first send
FetchReturns(t) ==
    /\ tasks[t].pc = "fetching"
    /\ \E resp \in ResponsesOf(tasks[t].cmd) :
          Work(t, [tasks[t] EXCEPT !.at = 0], tasks[t].at, resp)
    /\ UNCHANGED <<now, ticks, funVars>>

\* followup.send / response.send_message of the next message
Send(t) ==
    /\ tasks[t].pc = "sending"
    /\ LoopFree
    /\ tasks' = [tasks EXCEPT ![t] =
          Proceed([@ EXCEPT !.log = Append(@, Ev("send", Head(tasks[t].pending)))],
                  Tail(tasks[t].pending), tasks[t].raised)]
    /\ last' = NoCall
    /\ UNCHANGED <<now, ticks, cache, funVars, figures>>

\* A cache lifetime passes
BotTick ==
    /\ ticks < MaxBotTicks
    /\ ticks' = ticks + 1
    /\ now' = now + CACHE_EXPIRY
    /\ last' = NoCall
    /\ UNCHANGED <<cache, funVars, botVars>>

NextBot ==
    \/ \E t \in Slots : Dispatch(t)
    \/ \E t \in Slots : Resume(t)
    \/ \E t \in Slots : FetchReturns(t)
    \/ \E t \in Slots : Send(t)
    \/ BotTick

SpecBot == InitBot /\ [][NextBot]_vars

----------------------------------------------------------------------------
(* Claims about the response cache *)

\* C1: a call of get_cached_response uses the network if and only if
\* force_refresh is set, or the url has no entry, or the entry is at least
\* CACHE_EXPIRY seconds old; otherwise it returns the stored payload, raises
\* nothing and leaves the whole cache as it was.
C1_FetchIffNotFresh ==
    [][last' # NoCall =>
        LET k == last'.url IN
        /\ last'.fetched <=>
              (last'.force \/ k \notin DOMAIN cache
                 \/ now - cache[k].ts >= CACHE_EXPIRY)
        /\ ~last'.fetched =>
              /\ k \in DOMAIN cache
              /\ last'.ret = cache[k].data
              /\ last'.raised = "none"
              /\ cache' = cache]_vars

\* C1 witness: a lookup answered from the cache at age CACHE_EXPIRY - 1
C1_Witness ==
    /\ last # NoCall
    /\ ~last.fetched
    /\ now - cache[last.url].ts = CACHE_EXPIRY - 1

\* C2: after a call that fetched a 2xx JSON response, the url's entry is
\* exactly (that payload, the time of the call), every other entry is as it
\* was, and no step of the program ever removes a key.
C2_FetchOverwritesOnlyKey ==
    [][/\ DOMAIN cache \subseteq DOMAIN cache'
       /\ (last' # NoCall /\ last'.fetched /\ last'.resp.kind = "ok") =>
            LET k == last'.url IN
            /\ DOMAIN cache' = DOMAIN cache \cup {k}
            /\ cache'[k] = Entry(last'.resp.body, now)
            /\ last'.ret = last'.resp.body
            /\ \A o \in DOMAIN cache \ {k} : cache'[o] = cache[o]]_vars

\* C2 witness: a forced re-fetch has replaced an existing entry, at a later
\* time, while another url has an entry too
C2_Witness ==
    /\ last # NoCall
    /\ last.fetched /\ last.hadEntry /\ last.force
    /\ last.resp.kind = "ok"
    /\ cache[last.url] = Entry(last.resp.body, now)
    /\ now > 0
    /\ DOMAIN cache = Urls

\* C3: a failed fetch (network error, non-2xx response, malformed body)
\* raises to the caller and leaves the cache as it was.
C3_FailedFetchNotStored ==
    [][(last' # NoCall /\ last'.fetched /\ last'.resp.kind # "ok") =>
            /\ last'.raised # "none"
            /\ cache' = cache]_vars

----------------------------------------------------------------------------
(* Claims about the command handlers *)

IsSend(e) == e.ev = "send"

\* The messages an invocation has sent so far, in order
Sent(t) ==
    LET sends == SelectSeq(tasks[t].log, IsSend) IN
    [i \in 1..Len(sends) |-> sends[i].msg]

Over(t) == tasks[t].pc \in {"done", "crashed"}

\* C4: every handler, the driver lookup included, acknowledges the
\* interaction first, then gets its upstream data through the cache, and
\* only then sends; none fetches before acknowledging or past the cache.
C4_AckThenCacheThenSend ==
    \A t \in Slots :
        LET log == tasks[t].log IN
        \A i \in 1..Len(log) :
            /\ log[i].ev # "direct_get"
            /\ log[i].ev = "cache_get" => \E j \in 1..(i - 1) : log[j].ev = "ack"
            /\ log[i].ev = "send" => \E j \in 1..(i - 1) : log[j].ev = "cache_get"

\* The payload lacks the path the handler reads, or has it empty or of the
\* wrong type, or its first row lacks a field or has one of the wrong type
Malformed(body) ==
    \/ body.path \in {"missing", "empty", "badtype"}
    \/ body.path = "ok" /\ body.rows # <<>> /\ body.rows[1].defect # "none"

\* C5: a handler that got a malformed payload ends normally, having sent
\* exactly one message, the failure message.
C5_MalformedGivesOneFailure ==
    \A t \in Slots :
        (Over(t) /\ Malformed(tasks[t].body)) =>
            /\ tasks[t].pc = "done"
            /\ Sent(t) = <<Failure>>

WellFormed(body) ==
    /\ body.path = "ok"
    /\ \A i \in 1..Len(body.rows) : body.rows[i].defect = "none"

\* The plain-text standings message: the first ten rows
TopTenText(body) ==
    Msg("text", [i \in 1..Min(10, Len(body.rows)) |-> body.rows[i].position], <<>>)

\* C6: a standings handler whose chart construction threw on a well-formed
\* payload ends normally, having sent exactly one message, the plain-text
\* standings of the top ten rows, and no failure message.
C6_ChartFailureFallsBackToText ==
    \A t \in Slots :
        (/\ Over(t)
         /\ tasks[t].cmd \in {"drivers", "teams"}
         /\ tasks[t].fault # "none"
         /\ WellFormed(tasks[t].body)) =>
            /\ tasks[t].pc = "done"
            /\ Sent(t) = <<TopTenText(tasks[t].body)>>

\* C6 witness: both standings handlers have fallen back to the text of ten
\* rows out of more, one after pyplot failed to save, one after it failed to
\* create the figure
C6_Witness ==
    \E t, u \in Slots :
        /\ tasks[t].cmd = "drivers" /\ tasks[u].cmd = "teams"
        /\ Over(t) /\ Over(u)
        /\ tasks[t].fault = "save" /\ tasks[u].fault = "figure"
        /\ WellFormed(tasks[t].body) /\ Len(tasks[t].body.rows) > 10
        /\ WellFormed(tasks[u].body) /\ Len(tasks[u].body.rows) > 10
        /\ Len(Sent(t)) = 1 /\ Sent(t)[1].kind = "text" /\ Len(Sent(t)[1].rows) = 10
        /\ Len(Sent(u)) = 1 /\ Sent(u)[1].kind = "text" /\ Len(Sent(u)[1].rows) = 10

----------------------------------------------------------------------------
(* Claims about f1_results and create_progress_bar *)

\* The payload is a race with n >= 1 rows, all well formed, ranks from 1 up
RaceOf(body, n) ==
    /\ body.path = "ok"
    /\ Len(body.rows) = n
    /\ \A i \in 1..n : body.rows[i].defect = "none" /\ body.rows[i].position >= 1

CeilDiv(a, b) == (a + b - 1) \div b

RECURSIVE Concat(_)
Concat(seqs) == IF seqs = <<>> THEN <<>> ELSE Head(seqs) \o Concat(Tail(seqs))

\* The handler sent a summary and then the n rows in pages of PAGE_SIZE, in
\* ascending position order, each row once
PagedInOrder(o, n) ==
    /\ o.raised = "none"
    /\ Len(o.sends) = 1 + CeilDiv(n, PAGE_SIZE)
    /\ o.sends[1].kind = "summary"
    /\ \A j \in 2..Len(o.sends) :
          /\ o.sends[j].kind = "page"
          /\ Len(o.sends[j].rows) =
                IF j < Len(o.sends) THEN PAGE_SIZE ELSE n - PAGE_SIZE * (j - 2)
    /\ LET all == Concat([j \in 1..(Len(o.sends) - 1) |-> o.sends[j + 1].rows]) IN
          /\ Len(all) = n
          /\ {all[i].id : i \in 1..n} = 1..n
          /\ \A i \in 1..n : all[i].position = inp.rows[all[i].id].position
          /\ \A i \in 1..(n - 1) : all[i].position <= all[i + 1].position

\* C7: for a race payload of n >= 1 well-formed rows, f1_results sends the
\* summary and then ceil(n / 7) pages of 7 rows (the last one shorter), the
\* pages together holding the n rows once each in ascending position order.
C7_PagesOfSeven ==
    \A n \in 1..(MaxRows + 1) :
        (out # NotRun /\ RaceOf(inp, n)) => PagedInOrder(out, n)

\* The podium lists exactly the rows of rank 1, 2, 3, in rank order, each
\* with the medal of its rank
PodiumInRankOrder(o, rows) ==
    LET pod == o.sends[1].podium IN
    /\ {pod[i].id : i \in 1..Len(pod)} =
          {i \in 1..Len(rows) : rows[i].position \in 1..3}
    /\ \A i \in 1..Len(pod) :
          /\ pod[i].position = rows[pod[i].id].position
          /\ pod[i].medal = Medals[pod[i].position]
    /\ \A i \in 1..(Len(pod) - 1) : pod[i].position <= pod[i + 1].position

\* C8: whenever f1_results sends its summary for a payload of well-formed
\* rows, whatever their order, the podium lists exactly the rows with rank
\* 1, 2 and 3, in rank order, with gold, silver and bronze.
C8_PodiumInRankOrder ==
    \A n \in 1..(MaxRows + 1) :
        (out # NotRun /\ RaceOf(inp, n) /\ out.raised = "none"
           /\ out.sends # <<>> /\ out.sends[1].kind = "summary")
          => PodiumInRankOrder(out, inp.rows)

\* C9: create_progress_bar(position, 1) raises nothing, and f1_results on a
\* race with a single result row sends its summary and one page.
C9_SingleRowBar ==
    (out # NotRun /\ RaceOf(inp, 1)) =>
          /\ CreateProgressBar(inp.rows[1].position, Len(inp.rows)).raised = "none"
          /\ out.raised = "none"
          /\ Len(out.sends) = 2
          /\ out.sends[1].kind = "summary"
          /\ out.sends[2].kind = "page"

----------------------------------------------------------------------------
(* Claims about get_team_color *)

IsExactKey(name) == \E i \in TableIndices : TEAM_COLORS[i].name = name

\* The table entries that contain the name, case-insensitively
Containing(name) ==
    {i \in TableIndices : IsSubstr(Lower(name), Lower(TEAM_COLORS[i].name))}

\* The table entries that the name contains, case-insensitively
ContainedIn(name) ==
    {i \in TableIndices : IsSubstr(Lower(TEAM_COLORS[i].name), Lower(name))}

\* The name is no key of the table and is a substring of exactly one entry
UniqueSubstring(name) ==
    /\ name # <<>>
    /\ ~IsExactKey(name)
    /\ Cardinality(Containing(name)) = 1

TheEntry(name) == CHOOSE i \in Containing(name) : TRUE

SetMin(S) == CHOOSE i \in S : \A j \in S : i <= j

ExactAndDefault ==
    /\ IsExactKey(inp) =>
          \E i \in TableIndices :
              TEAM_COLORS[i].name = inp /\ out.color = TEAM_COLORS[i].color
    /\ (~IsExactKey(inp) /\ Containing(inp) = {} /\ ContainedIn(inp) = {}) =>
          out.color = DEFAULT_COLOR

\* C10 as stated: a name that is no key and is a case-insensitive substring
\* of exactly one table entry gets that entry's colour, even when an earlier
\* entry is contained in the name; a key gets its own colour and a name that
\* matches nothing the default.
C10_UniqueSubstringColor ==
    out # NotRun =>
        /\ UniqueSubstring(inp) => out.color = TEAM_COLORS[TheEntry(inp)].color
        /\ ExactAndDefault

\* C10 amended: such a name gets the colour of the first table entry, in table
\* order, that contains the name or is contained in it: the one entry
\* containing it, unless an earlier entry is contained in the name, and then
\* the earliest of those.
C10_FirstMatchColor ==
    out # NotRun =>
        /\ UniqueSubstring(inp) =>
              LET e == TheEntry(inp)
                  earlier == {i \in ContainedIn(inp) : i < e}
              IN  out.color = IF earlier = {} THEN TEAM_COLORS[e].color
                              ELSE TEAM_COLORS[SetMin(earlier)].color
        /\ ExactAndDefault

\* C10 witness: a name inside exactly one entry has been given the colour of
\* an earlier entry that it contains, which is not that entry's colour
C10_Witness ==
    /\ out # NotRun
    /\ UniqueSubstring(inp)
    /\ \E i \in ContainedIn(inp) : i < TheEntry(inp) /\ out.color = TEAM_COLORS[i].color
    /\ out.color # TEAM_COLORS[TheEntry(inp)].color

----------------------------------------------------------------------------
(* The countdown of f1_next: a function of the event instant and the clock *)

SECONDS_PER_DAY == 86400     \* timedelta.days counts these
SECONDS_PER_HOUR == 3600     \* divmod(time_diff.seconds, 3600)
SECONDS_PER_MINUTE == 60     \* divmod(remainder, 60)
MICROSECONDS == 1000000      \* the resolution of datetime.now()

\* An instant: whole seconds and the microseconds within the second.  The
\* event instant comes from "date" and "time" ("HH:MM:SSZ"), so it has no
\* microseconds; datetime.datetime.now(pytz.utc) has them.
Instant(s, us) == [s |-> s, us |-> us]

\* race_datetime - now: a timedelta, normalised as Python keeps it, with
\* 0 <= seconds < 86400 and 0 <= microseconds < 1000000, days carrying the sign
TimeDiff(race, nw) ==
    LET borrow == IF race.us < nw.us THEN 1 ELSE 0
        us == race.us - nw.us + borrow * MICROSECONDS
        ds == race.s - nw.s - borrow
    IN  [days |-> ds \div SECONDS_PER_DAY,
         seconds |-> ds % SECONDS_PER_DAY,
         microseconds |-> us]

\* time_diff.total_seconds() > 0
TotalSecondsPositive(td) ==
    LET whole == td.days * SECONDS_PER_DAY + td.seconds
    IN  whole > 0 \/ (whole = 0 /\ td.microseconds > 0)

\* "Race has started or completed"
Started == [kind |-> "started"]

\* The text of the countdown line, by its four numbers
CountdownOf(td, positive) ==
    IF positive
    THEN LET hours == td.seconds \div SECONDS_PER_HOUR
             remainder == td.seconds % SECONDS_PER_HOUR
         IN  [kind |-> "countdown",
              days |-> td.days,
              hours |-> hours,
              minutes |-> remainder \div SECONDS_PER_MINUTE,
              seconds |-> remainder % SECONDS_PER_MINUTE]
    ELSE Started

CountdownInclusive(race, nw) ==
    CountdownOf(TimeDiff(race, nw), TimeDiff(race, nw).days >= 0)

Countdown(race, nw) ==
    CountdownOf(TimeDiff(race, nw), TotalSecondsPositive(TimeDiff(race, nw)))

\* The clock readings and the event instants the countdown is tried on: the
\* event is before, at or after the clock by every mix of whole days, of 0, 1,
\* 3 and 23 hours, of 0, 1 and 59 minutes and of 0, 1 and 59 seconds, and the
\* clock is at a whole second, just after it or just before the next
ClockBase == MaxDays * SECONDS_PER_DAY + SECONDS_PER_DAY
ClockMicros == {0, 1, MICROSECONDS - 1}
Offsets ==
    {d * SECONDS_PER_DAY + h * SECONDS_PER_HOUR + m * SECONDS_PER_MINUTE + s :
        d \in 0..MaxDays, h \in {0, 1, 3, 23}, m \in {0, 1, 59}, s \in {0, 1, 59}}
CountdownInputs ==
    {[race |-> Instant(ClockBase + sign * off, 0), now |-> Instant(ClockBase, us)] :
        sign \in {-1, 1}, off \in Offsets, us \in ClockMicros}

InitNext ==
    /\ now = 0
    /\ ticks = 0
    /\ cache = EmptyCache
    /\ last = NoCall
    /\ inp \in CountdownInputs
    /\ out = NotRun
    /\ NoTasks

RunCountdown ==
    /\ out = NotRun
    /\ out' = Countdown(inp.race, inp.now)
    /\ UNCHANGED <<now, ticks, cache, last, inp, botVars>>

NextNext == RunCountdown

SpecNext == InitNext /\ [][NextNext]_vars

----------------------------------------------------------------------------
(* C11 *)

\* The event lies strictly after the clock reading
InFuture(i) == i.race.s > i.now.s \/ (i.race.s = i.now.s /\ i.race.us > i.now.us)

\* The whole seconds from the clock reading to the event, for an event in the
\* future: the seconds between the two, less the one the clock has begun
WholeSecondsLeft(i) ==
    i.race.s - i.now.s - (IF i.race.us < i.now.us THEN 1 ELSE 0)

\* C11: an event strictly in the future gets a countdown whose days are not
\* negative, whose hours are below 24 and whose minutes and seconds are below
\* 60, and which adds up to the whole seconds left; an event at the clock
\* reading or before it gets the started-or-completed line.
C11_CountdownAddsUp ==
    out # NotRun =>
        IF InFuture(inp)
        THEN /\ out.kind = "countdown"
             /\ out.days >= 0
             /\ out.hours \in 0..23
             /\ out.minutes \in 0..59
             /\ out.seconds \in 0..59
             /\ out.days * 86400 + out.hours * 3600 + out.minutes * 60 + out.seconds
                    = WholeSecondsLeft(inp)
        ELSE out = Started

\* C11 witness: an event 2 days and 3 hours after a clock reading at a whole
\* second has been given "2d 3h 0m 0s"
C11_Witness ==
    /\ out # NotRun
    /\ inp.now.us = 0
    /\ inp.race.s - inp.now.s = 2 * 86400 + 3 * 3600
    /\ out = [kind |-> "countdown", days |-> 2, hours |-> 3, minutes |-> 0, seconds |-> 0]

----------------------------------------------------------------------------
(* C12 *)

\* C12: every figure a standings handler creates is closed before the handler
\* goes on, also when drawing or saving fails and the text fallback is taken:
\* between the handlers' steps no created figure is open.
C12_NoFigureLeftOpen == figures = 0

----------------------------------------------------------------------------
(* C13 *)

\* The invocation can be taken a step further by the event loop
Runnable(u) == tasks[u].pc \in {"idle", "deferred", "sending"}

\* C13: while one handler waits for its upstream fetch the others are not
\* held up: an invocation that has a step to take can take it.
C13_FetchDoesNotBlock ==
    \A t, u \in Slots :
        (tasks[t].pc = "fetching" /\ Runnable(u)) =>
            ENABLED (Dispatch(u) \/ Resume(u) \/ Send(u))

----------------------------------------------------------------------------
(* C14 *)

\* What the championship lookup of top driver i comes back with, on cache c
\* at time t when the upstream answers resp: the stored payload while it is
\* fresh, the upstream's answer otherwise
LookedUp(c, t, i, resp) ==
    IF IsFresh(c, t, ChampUrl(i), FALSE) THEN [failed |-> FALSE, body |-> c[ChampUrl(i)].data]
    ELSE [failed |-> FetchRaises(resp) # "none", body |-> resp.body]

\* The lookup of driver i succeeds with a positive count
PositiveCount(c, t, i, resp) ==
    LET l == LookedUp(c, t, i, resp) IN
    /\ ~l.failed
    /\ PathRaises(l.body.path) = "none"
    /\ l.body.total > 0

\* The first of the top n drivers whose lookup gives a positive count, the
\* lookups that fail being passed over; 0 when there is none
FirstPositive(c, t, n, resps) ==
    LET pos == {i \in 1..n : PositiveCount(c, t, i, resps[i])} IN
    IF pos = {} THEN 0 ELSE SetMin(pos)

\* Invocation t of f1_standings_drivers comes, in this step, from its fetch
\* to the sending of its chart message
ChartMade(t) ==
    /\ tasks[t].cmd = "drivers"
    /\ tasks[t].pc \in {"deferred", "fetching"}
    /\ tasks'[t].pc = "sending"
    /\ Head(tasks'[t].pending).kind = "chart"

\* C14: the chart message of f1_standings_drivers names the first of the top
\* three drivers whose championship lookup gives a positive count, a driver
\* whose lookup failed being passed over; it is otherwise the message it
\* would be without the lookups, it is the only message and nothing is raised.
C14_FirstPositiveChampion ==
    [][\A t \in Slots : ChartMade(t) =>
          LET body == tasks'[t].body
              msg == Head(tasks'[t].pending)
          IN  /\ msg.champion = FirstPositive(cache, now, Min(TOP_ROWS, Len(body.rows)),
                                              last'.answers)
              /\ [msg EXCEPT !.champion = 0]
                    = Msg("chart", Positions(Prefix(body.rows, CHART_ROWS)),
                          TopFields(body.rows))
              /\ Len(tasks'[t].pending) = 1
              /\ tasks'[t].raised = "none"]_vars

====
